---- MODULE Spec2Model ----
(***************************************************************************)
(* A model of the song-identification pipeline of scripts/main.py and of   *)
(* the Flask front end of server.py.                                       *)
(*                                                                         *)
(* Part 1: IEEE-754 binary64 arithmetic (Python float, numpy float64),     *)
(*         needed by get_text_color and get_color, which compare rounded   *)
(*         floating-point values.                                          *)
(* Part 2: the pure functions get_color, get_text_color, get_song_urls,    *)
(*         generate_output.                                                *)
(* Part 3: the pipeline main() as a state machine over the shared files    *)
(*         output/temp.wav, cookies.txt and ../media/cover.jpg.            *)
(***************************************************************************)
EXTENDS Integers, Sequences, FiniteSets, TLC

VARIABLES
    igCookies,    \* os.getenv("IG_COOKIES") is set
    sumOrder,     \* association order of numpy's 3-term row sum
    wav,          \* file output/temp.wav
    cookiesFile,  \* file cookies.txt exists
    coverFile,    \* file ../media/cover.jpg
    inv,          \* per request: the locals of process()/main() and a call log
    calls,        \* number of requests started so far
    fnIn,         \* argument of the pure function under check
    fnOut,        \* its result
    fnPc          \* "ready" | "done"

vars == <<igCookies, sumOrder, wav, cookiesFile, coverFile, inv, calls,
          fnIn, fnOut, fnPc>>

(***************************************************************************)
(* Part 1a: natural numbers of arbitrary size, little-endian limbs in base *)
(* 2^15 (the checker's integers are 32 bits wide; a binary64 significand   *)
(* has 53 bits and a product of two has 106).                              *)
(***************************************************************************)
Base == 2^15

RECURSIVE Pow2(_)
Pow2(k) == IF k = 0 THEN 1 ELSE 2 * Pow2(k - 1)

RECURSIVE BigNorm(_)
BigNorm(a) ==
    IF a # <<>> /\ a[Len(a)] = 0 THEN BigNorm(SubSeq(a, 1, Len(a) - 1)) ELSE a

RECURSIVE BigFromInt(_)
BigFromInt(n) == IF n = 0 THEN <<>> ELSE <<n % Base>> \o BigFromInt(n \div Base)

Limb(a, i) == IF i <= Len(a) THEN a[i] ELSE 0

RECURSIVE BigAddFrom(_, _, _, _)
BigAddFrom(a, b, i, c) ==
    IF i > Len(a) /\ i > Len(b)
    THEN IF c = 0 THEN <<>> ELSE <<c>>
    ELSE LET s == Limb(a, i) + Limb(b, i) + c
         IN  <<s % Base>> \o BigAddFrom(a, b, i + 1, s \div Base)

BigAdd(a, b) == BigAddFrom(a, b, 1, 0)

RECURSIVE BigSubFrom(_, _, _, _)
BigSubFrom(a, b, i, br) ==
    IF i > Len(a)
    THEN <<>>
    ELSE LET d == a[i] - Limb(b, i) - br
         IN  <<IF d < 0 THEN d + Base ELSE d>>
                 \o BigSubFrom(a, b, i + 1, IF d < 0 THEN 1 ELSE 0)

\* a - b for a >= b
BigSub(a, b) == BigNorm(BigSubFrom(a, b, 1, 0))

RECURSIVE BigCmpFrom(_, _, _)
BigCmpFrom(a, b, i) ==
    IF i = 0 THEN 0
    ELSE IF a[i] < b[i] THEN -1
    ELSE IF a[i] > b[i] THEN 1
    ELSE BigCmpFrom(a, b, i - 1)

\* -1, 0, 1 as a < b, a = b, a > b (both normalised)
BigCmp(a, b) ==
    IF Len(a) < Len(b) THEN -1
    ELSE IF Len(a) > Len(b) THEN 1
    ELSE BigCmpFrom(a, b, Len(a))

RECURSIVE BigMulSmallFrom(_, _, _, _)
BigMulSmallFrom(a, k, i, c) ==
    IF i > Len(a)
    THEN IF c = 0 THEN <<>> ELSE <<c>>
    ELSE LET s == a[i] * k + c
         IN  <<s % Base>> \o BigMulSmallFrom(a, k, i + 1, s \div Base)

\* a * k for 0 <= k < Base
BigMulSmall(a, k) == BigNorm(BigMulSmallFrom(a, k, 1, 0))

Zeros(n) == [i \in 1..n |-> 0]

RECURSIVE BigMulFrom(_, _, _)
BigMulFrom(a, b, i) ==
    IF i > Len(b) THEN <<>>
    ELSE BigAdd(IF b[i] = 0 THEN <<>> ELSE Zeros(i - 1) \o BigMulSmall(a, b[i]),
                BigMulFrom(a, b, i + 1))

BigMul(a, b) == BigNorm(BigMulFrom(a, b, 1))

RECURSIVE BigDivSmallFrom(_, _, _, _)
BigDivSmallFrom(a, d, i, rem) ==
    IF i = 0 THEN [q |-> <<>>, r |-> rem]
    ELSE LET cur  == rem * Base + a[i]
             rest == BigDivSmallFrom(a, d, i - 1, cur % d)
         IN  [q |-> rest.q \o <<cur \div d>>, r |-> rest.r]

\* quotient and remainder of a by d, 0 < d < Base
BigDivSmall(a, d) ==
    LET x == BigDivSmallFrom(a, d, Len(a), 0)
    IN  [q |-> BigNorm(x.q), r |-> x.r]

RECURSIVE SmallBitLen(_)
SmallBitLen(n) == IF n = 0 THEN 0 ELSE 1 + SmallBitLen(n \div 2)

BitLen(a) == IF a = <<>> THEN 0 ELSE 15 * (Len(a) - 1) + SmallBitLen(a[Len(a)])

ShiftLeft(a, k) ==
    IF a = <<>> THEN <<>>
    ELSE Zeros(k \div 15) \o BigMulSmall(a, Pow2(k % 15))

ShiftRight(a, k) ==
    IF k \div 15 >= Len(a) THEN <<>>
    ELSE BigDivSmall(SubSeq(a, (k \div 15) + 1, Len(a)), Pow2(k % 15)).q

Bit(a, k) == (Limb(a, (k \div 15) + 1) \div Pow2(k % 15)) % 2

\* some bit below bit k is set
LowBitsNonzero(a, k) ==
    \/ \E i \in 1..(k \div 15) : Limb(a, i) # 0
    \/ Limb(a, (k \div 15) + 1) % Pow2(k % 15) # 0

(***************************************************************************)
(* Part 1b: non-negative binary64 values, [m, e] standing for m * 2^e with *)
(* m = 0 (zero) or 2^52 <= m < 2^53.  Every operation computes the exact   *)
(* result and rounds it to nearest, ties to even, as IEEE-754 does.        *)
(***************************************************************************)
MantBits == 53

FZero == [m |-> <<>>, e |-> 0]

\* the binary64 nearest to m * 2^e (+ a nonzero fraction below m's last bit
\* when sticky), ties to even
FRound(m, e, sticky) ==
    LET L == BitLen(m)
    IN  IF L = 0 THEN FZero
        ELSE IF L <= MantBits
        THEN [m |-> ShiftLeft(m, MantBits - L), e |-> e - (MantBits - L)]
        ELSE LET p   == L - MantBits
                 q   == ShiftRight(m, p)
                 rnd == Bit(m, p - 1) = 1
                 st  == sticky \/ LowBitsNonzero(m, p - 1)
                 up  == rnd /\ (st \/ Bit(q, 0) = 1)
                 q2  == IF up THEN BigAdd(q, <<1>>) ELSE q
             IN  IF BitLen(q2) > MantBits
                 THEN [m |-> ShiftRight(q2, 1), e |-> e + p + 1]
                 ELSE [m |-> q2, e |-> e + p]

FInt(n) == FRound(BigFromInt(n), 0, FALSE)

FMul(x, y) == FRound(BigMul(x.m, y.m), x.e + y.e, FALSE)

FMin(a, b) == IF a < b THEN a ELSE b

FAdd(x, y) ==
    IF x.m = <<>> THEN y
    ELSE IF y.m = <<>> THEN x
    ELSE LET e == FMin(x.e, y.e)
         IN  FRound(BigAdd(ShiftLeft(x.m, x.e - e), ShiftLeft(y.m, y.e - e)), e, FALSE)

\* |x - y|
FAbsDiff(x, y) ==
    IF x.m = <<>> THEN y
    ELSE IF y.m = <<>> THEN x
    ELSE LET e  == FMin(x.e, y.e)
             mx == ShiftLeft(x.m, x.e - e)
             my == ShiftLeft(y.m, y.e - e)
         IN  IF BigCmp(mx, my) >= 0
             THEN FRound(BigSub(mx, my), e, FALSE)
             ELSE FRound(BigSub(my, mx), e, FALSE)

\* x / d for an integer 0 < d < Base
FDivSmall(x, d) ==
    LET qr == BigDivSmall(ShiftLeft(x.m, 30), d)
    IN  FRound(qr.q, x.e - 30, qr.r # 0)

FLess(x, y) ==
    IF y.m = <<>> THEN FALSE
    ELSE IF x.m = <<>> THEN TRUE
    ELSE x.e < y.e \/ (x.e = y.e /\ BigCmp(x.m, y.m) < 0)

\* the literals of get_text_color:
\* 0.299 = 0x1.322d0e5604189p-2 = 5386305154335113 * 2^-54
F0299 == [m |-> <<16777, 19136, 2883, 153>>, e |-> -54]
\* 0.587 = 0x1.2c8b439581062p-1 = 5287225962532962 * 2^-53
F0587 == [m |-> <<4194, 29360, 8912, 150>>, e |-> -53]
\* 0.114 = 0x1.d2f1a9fbe76c9p-4 = 8214565720323785 * 2^-56
F0114 == [m |-> <<30409, 16252, 15466, 233>>, e |-> -56]
\* 0.5 = 2^52 * 2^-53
FHalf == [m |-> <<0, 0, 0, 128>>, e |-> -53]

(***************************************************************************)
(* Part 2: the pure functions.  A color string is the sequence of its      *)
(* characters, so that formatting and parsing are real conversions.        *)
(***************************************************************************)
HexChars == <<"0", "1", "2", "3", "4", "5", "6", "7",
              "8", "9", "A", "B", "C", "D", "E", "F">>

NO_COLOR == <<"N", "O", "_", "C", "O", "L", "O", "R">>
BLACK == <<"#", "0", "0", "0", "0", "0", "0">>
WHITE == <<"#", "F", "F", "F", "F", "F", "F">>

\* "{:02X}".format(n)
Hex2(n) == <<HexChars[(n \div 16) + 1], HexChars[(n % 16) + 1]>>

\* "#{:02X}{:02X}{:02X}".format(*pixel)
FormatHex(p) == <<"#">> \o Hex2(p[1]) \o Hex2(p[2]) \o Hex2(p[3])

HexVal(c) == CHOOSE i \in 0..15 : HexChars[i + 1] = c

\* int(s[i:i+2], 16), i counted from 0 as in Python
ParseHex2(s, i) == 16 * HexVal(s[i + 1]) + HexVal(s[i + 2])

SumOrders == {"left", "right"}

\* np.mean(pixels, axis=1), (pixels - grayscale) ** 2 and np.sum(..., axis=1)
\* for one pixel.  numpy adds the three squares either as (a + b) + c or as
\* a + (b + c), depending on how its reduction is initialised.
Vibrancy(p, order) ==
    LET grayscale == FDivSmall(FInt(p[1] + p[2] + p[3]), 3)
        d1 == FAbsDiff(FInt(p[1]), grayscale)
        d2 == FAbsDiff(FInt(p[2]), grayscale)
        d3 == FAbsDiff(FInt(p[3]), grayscale)
        s1 == FMul(d1, d1)
        s2 == FMul(d2, d2)
        s3 == FMul(d3, d3)
    IN  IF order = "left" THEN FAdd(FAdd(s1, s2), s3) ELSE FAdd(s1, FAdd(s2, s3))

\* the last index holding the maximum
ArgMaxLast(v) ==
    CHOOSE i \in 1..Len(v) :
        /\ \A j \in 1..Len(v) : ~FLess(v[i], v[j])
        /\ \A j \in (i + 1)..Len(v) : FLess(v[j], v[i])

\* np.argmax: the first index holding the maximum
ArgMax(v) ==
    CHOOSE i \in 1..Len(v) :
        /\ \A j \in 1..Len(v) : ~FLess(v[i], v[j])
        /\ \A j \in 1..(i - 1) : FLess(v[j], v[i])

\* get_text_color with luminance <= 0.5 for luminance < 0.5
get_text_color_le(hex_color) ==
    IF hex_color = NO_COLOR THEN BLACK
    ELSE LET r == ParseHex2(hex_color, 1)
             g == ParseHex2(hex_color, 3)
             b == ParseHex2(hex_color, 5)
             luminance ==
                 FDivSmall(FAdd(FAdd(FMul(F0299, FInt(r)), FMul(F0587, FInt(g))),
                                FMul(F0114, FInt(b))), 255)
         IN  IF ~FLess(FHalf, luminance) THEN WHITE ELSE BLACK

get_text_color(hex_color) ==
    IF hex_color = NO_COLOR THEN BLACK
    ELSE LET r == ParseHex2(hex_color, 1)
             g == ParseHex2(hex_color, 3)
             b == ParseHex2(hex_color, 5)
             luminance ==
                 FDivSmall(FAdd(FAdd(FMul(F0299, FInt(r)), FMul(F0587, FInt(g))),
                                FMul(F0114, FInt(b))), 255)
         IN  IF FLess(luminance, FHalf) THEN WHITE ELSE BLACK


ChannelSamples == {0, 1, 2, 255}
PixelSamples == ChannelSamples \X ChannelSamples \X ChannelSamples

\* Vibrancy, tabulated once over the pixels the model uses (so that the
\* checker computes each score once and not at every comparison)
VibrancyTable ==
    { <<o, p, Vibrancy(p, o)>> : o \in SumOrders, p \in PixelSamples }

Score(order, p) ==
    (CHOOSE e \in VibrancyTable : e[1] = order /\ e[2] = p)[3]

\* the scores of the pixels from index i on
RECURSIVE ScoresFrom(_, _, _)
ScoresFrom(pixels, order, i) ==
    IF i > Len(pixels) THEN <<>>
    ELSE <<Score(order, pixels[i])>> \o ScoresFrom(pixels, order, i + 1)

NoCover == [exists |-> FALSE, pixels |-> <<>>, by |-> 0]

\* cover: the file ../media/cover.jpg, its pixels in row-major order
get_color(cover, order) ==
    IF cover.exists
    THEN LET pixels == cover.pixels
             vibrancy == ScoresFrom(pixels, order, 1)
             most_vibrant_idx == ArgMax(vibrancy)
         IN  FormatHex(pixels[most_vibrant_idx])
    ELSE NO_COLOR

None == "<None>"

\* Python's truth value of a str-or-None
Truthy(s) == s # None /\ s # ""

\* urllib.parse.quote on the pieces of the query: a space becomes %20, the
\* letters of a title or an artist are left alone
Quote(q) == [k \in 1..Len(q) |-> IF q[k] = " " THEN "%20" ELSE q[k]]

get_song_urls(title, artist) ==
    LET query == <<title, " ", artist>>
        encoded_query == Quote(query)
    IN  << <<"https://open.spotify.com/search/">> \o encoded_query,
           <<"https://music.youtube.com/search?q=">> \o encoded_query,
           <<"https://music.apple.com/us/search?term=">> \o encoded_query >>

\* the outcome of a call: a value, or an exception
Raise(e) == [raise |-> e]
Raised(x) == "raise" \in DOMAIN x

generate_output(title, artist, cover, color, error) ==
    IF Truthy(title) /\ Truthy(artist)
    THEN LET urls == get_song_urls(title, artist)
             text_color == get_text_color(color)
         IN  [success |-> TRUE, title |-> title, artist |-> artist,
              cover |-> cover, color |-> color, text_color |-> text_color,
              spotify |-> urls[1], youtube |-> urls[2], apple |-> urls[3]]
    ELSE IF error = <<>>
         THEN Raise("IndexError")
         ELSE [success |-> FALSE, error |-> error[1]]


(***************************************************************************)
(* Part 3: the pipeline.  A URL is the sequence of its pieces, and         *)
(* `"x" in url` is membership of a piece.                                  *)
(***************************************************************************)
U_YT_WATCH  == <<"https://www.", "youtube.com", "/watch?v=", "v1">>
U_YT_BE     == <<"https://", "youtu.be", "/", "v1">>
U_YT_SHORTS == <<"https://www.", "youtube.com", "/", "shorts", "/", "v2">>
U_REEL      == <<"https://www.", "instagram.com", "/reels/", "v3">>
U_BAD       == <<"not-a-video">>
U_EMPTY     == <<>>

Urls == {U_YT_WATCH, U_YT_BE, U_YT_SHORTS, U_REEL, U_BAD, U_EMPTY}
ConcUrls == {U_YT_SHORTS, U_REEL}

Procs == {1, 2}
SeqProcs == {1}

MaxCalls == 2

ONLY_SHORTS_MSG == "Only YouTube SHORTS links are supported at the moment."
INVALID_URL_MSG ==
    "Invalid URL. Please enter a valid TikTok, Instagram Reels, or YouTube Shorts URL."
NO_SONG_FOUND == "NO_SONG_FOUND"

UrlContains(url, piece) == \E k \in 1..Len(url) : url[k] = piece

\* the test of download_video that turns a link away
NotShortsLinkNoYoutuBe(url) ==
    UrlContains(url, "youtube.com") /\ ~UrlContains(url, "shorts")

NotShortsLink(url) ==
    /\ UrlContains(url, "youtube.com") \/ UrlContains(url, "youtu.be")
    /\ ~UrlContains(url, "shorts")

(* The collaborators. *)

\* yt-dlp: what ydl.download([url]) can do
DownloadOutcomes(url) == IF url = U_BAD THEN {"fail"} ELSE {"ok", "fail"}

\* the song that plays in a video
SongOf(url) ==
    IF url = U_YT_SHORTS THEN [title |-> "Test", artist |-> "Artist"]
    ELSE [title |-> "Song2", artist |-> "Band2"]

OtherCandidate == [title |-> "Remix", artist |-> "Other"]

\* the recognition service on a sample extracted from `src`: no answer, an
\* answer that is not JSON, or JSON whose metadata.music, when present, lists
\* the matches best first (music = <<>> stands for JSON without metadata.music)
AcrResponses(src) ==
    { [kind |-> "network_error", music |-> <<>>],
      [kind |-> "not_json", music |-> <<>>],
      [kind |-> "json", music |-> <<>>],
      [kind |-> "json", music |-> <<SongOf(src)>>],
      [kind |-> "json", music |-> <<SongOf(src), OtherCandidate>>] }

\* the catalog's artwork for a search term, resized
ArtworkOf(title) ==
    IF title = "Test" THEN << <<0, 0, 0>>, <<255, 0, 0>> >>
    ELSE IF title = None THEN << <<1, 1, 1>> >>
    ELSE << <<255, 255, 0>> >>

ArtworkOutcomes == {"found", "none", "request_error"}

NoWav == [exists |-> FALSE, src |-> <<>>, by |-> 0]
NoRecord == [pending |-> TRUE]

\* a request that has not started
InitInv ==
    [pc |-> "idle", id |-> 0, url |-> <<>>, error_msg |-> <<>>,
     t |-> None, a |-> None, cover |-> FALSE, color |-> NO_COLOR,
     exc |-> None, out |-> NoRecord, resp |-> NoRecord, status |-> 0,
     log |-> {}, wavBy |-> 0]

\* the last match of the list
LastMatch(music) == music[Len(music)]

\* result["metadata"]["music"][0]
FirstMatch(music) == music[1]

\* the error list left as it is
NoMatchErrorsDropped(error) == error

\* error.append("NO_SONG_FOUND")
NoMatchErrors(error) == Append(error, NO_SONG_FOUND)

(* server.process up to the call of main, and the first lines of main *)
Request(i, u) ==
    /\ inv[i].pc \in {"idle", "responded"}
    /\ calls < MaxCalls
    /\ calls' = calls + 1
    /\ inv' = [inv EXCEPT ![i] =
                 IF u = <<>>
                 THEN [InitInv EXCEPT !.pc = "responded", !.id = calls + 1,
                                      !.resp = [error |-> "No URL provided",
                                                success |-> FALSE],
                                      !.status = 400]
                 ELSE [InitInv EXCEPT !.pc = "download", !.id = calls + 1,
                                      !.url = u]]
    /\ UNCHANGED <<igCookies, sumOrder, wav, cookiesFile, coverFile,
                   fnIn, fnOut, fnPc>>

(* download_video, and main's test of the error list *)
DownloadVideo(i) ==
    /\ inv[i].pc = "download"
    /\ IF NotShortsLink(inv[i].url)
       THEN /\ inv' = [inv EXCEPT ![i].error_msg = Append(@, ONLY_SHORTS_MSG),
                                  ![i].pc = "assemble"]
            /\ UNCHANGED <<wav, cookiesFile>>
       ELSE \E outcome \in DownloadOutcomes(inv[i].url) :
              LET written == IF igCookies THEN {"cookie"} ELSE {}
              IN  IF outcome = "ok"
                  THEN /\ wav' = [exists |-> TRUE, src |-> inv[i].url,
                                  by |-> inv[i].id]
                       /\ cookiesFile' = IF igCookies THEN FALSE ELSE cookiesFile
                       /\ inv' = [inv EXCEPT
                                    ![i].log = @ \cup {"downloader"} \cup written,
                                    ![i].pc = "recognize"]
                  ELSE /\ wav' = wav
                       /\ cookiesFile' = IF igCookies THEN TRUE ELSE cookiesFile
                       /\ inv' = [inv EXCEPT
                                    ![i].log = @ \cup {"downloader", "download_failed"}
                                                 \cup written,
                                    ![i].error_msg = Append(@, INVALID_URL_MSG),
                                    ![i].pc = "assemble"]
    /\ UNCHANGED <<igCookies, sumOrder, coverFile, calls, fnIn, fnOut, fnPc>>

(* recognize_song *)
RecognizeSong(i) ==
    /\ inv[i].pc = "recognize"
    /\ IF ~wav.exists
       THEN \* os.path.getsize("output/temp.wav") raises
            /\ inv' = [inv EXCEPT ![i].log = @ \cup {"recognizer"},
                                  ![i].exc = "FileNotFoundError",
                                  ![i].pc = "raised"]
            /\ wav' = wav
       ELSE \E response \in AcrResponses(wav.src) :
              IF response.kind = "network_error"
              THEN \* requests.post raises
                   /\ inv' = [inv EXCEPT ![i].log = @ \cup {"recognizer"},
                                         ![i].wavBy = wav.by,
                                         ![i].exc = "ConnectionError",
                                         ![i].pc = "raised"]
                   /\ wav' = wav
              ELSE IF response.kind = "not_json"
              THEN \* response.json() raises
                   /\ inv' = [inv EXCEPT ![i].log = @ \cup {"recognizer"},
                                         ![i].wavBy = wav.by,
                                         ![i].exc = "JSONDecodeError",
                                         ![i].pc = "raised"]
                   /\ wav' = wav
              ELSE /\ wav' = NoWav
                   /\ IF response.music # <<>>
                      THEN inv' = [inv EXCEPT
                                     ![i].log = @ \cup {"recognizer"},
                                     ![i].wavBy = wav.by,
                                     ![i].t = FirstMatch(response.music).title,
                                     ![i].a = FirstMatch(response.music).artist,
                                     ![i].pc = "artwork"]
                      ELSE inv' = [inv EXCEPT
                                     ![i].log = @ \cup {"recognizer", "no_match"},
                                     ![i].wavBy = wav.by,
                                     ![i].error_msg = NoMatchErrors(@),
                                     ![i].t = None,
                                     ![i].a = None,
                                     ![i].pc = "artwork"]
    /\ UNCHANGED <<igCookies, sumOrder, cookiesFile, coverFile, calls,
                   fnIn, fnOut, fnPc>>

(* get_album_cover(t, a) *)
GetAlbumCover(i) ==
    /\ inv[i].pc = "artwork"
    /\ \E outcome \in ArtworkOutcomes :
         IF outcome = "found"
         THEN /\ coverFile' = [exists |-> TRUE, pixels |-> ArtworkOf(inv[i].t),
                               by |-> inv[i].id]
              /\ inv' = [inv EXCEPT ![i].log = @ \cup {"artwork"},
                                    ![i].cover = TRUE,
                                    ![i].pc = "color"]
         ELSE /\ coverFile' = coverFile
              /\ inv' = [inv EXCEPT ![i].log = @ \cup {"artwork"},
                                    ![i].cover = FALSE,
                                    ![i].pc = "color"]
    /\ UNCHANGED <<igCookies, sumOrder, wav, cookiesFile, calls, fnIn, fnOut, fnPc>>

(* get_color() *)
GetColor(i) ==
    /\ inv[i].pc = "color"
    /\ inv' = [inv EXCEPT ![i].log = @ \cup {"color"},
                          ![i].color = get_color(coverFile, sumOrder),
                          ![i].pc = "assemble"]
    /\ UNCHANGED <<igCookies, sumOrder, wav, cookiesFile, coverFile, calls,
                   fnIn, fnOut, fnPc>>

(* main's return generate_output(...), and process' return jsonify(...) *)
Assemble(i) ==
    /\ inv[i].pc = "assemble"
    /\ LET r == generate_output(inv[i].t, inv[i].a, inv[i].cover, inv[i].color,
                                inv[i].error_msg)
       IN  IF Raised(r)
           THEN inv' = [inv EXCEPT ![i].exc = r.raise, ![i].pc = "raised"]
           ELSE inv' = [inv EXCEPT ![i].out = r, ![i].resp = r,
                                   ![i].status = 200, ![i].pc = "responded"]
    /\ UNCHANGED <<igCookies, sumOrder, wav, cookiesFile, coverFile, calls,
                   fnIn, fnOut, fnPc>>

(* process' except clause, reached when main raises *)
ProcessExcept(i) ==
    /\ inv[i].pc = "raised"
    /\ inv' = [inv EXCEPT ![i].resp = [errora |-> inv[i].exc, success |-> FALSE],
                          ![i].status = 500,
                          ![i].pc = "responded"]
    /\ UNCHANGED <<igCookies, sumOrder, wav, cookiesFile, coverFile, calls,
                   fnIn, fnOut, fnPc>>

Init ==
    /\ igCookies \in BOOLEAN
    /\ sumOrder \in SumOrders
    /\ wav = NoWav
    /\ cookiesFile = FALSE
    /\ coverFile = NoCover
    /\ inv = [i \in Procs |-> InitInv]
    /\ calls = 0
    /\ fnIn = <<>>
    /\ fnOut = <<>>
    /\ fnPc = "off"

\* one request after the other
Next ==
    \E i \in SeqProcs :
        \/ \E u \in Urls : Request(i, u)
        \/ DownloadVideo(i)
        \/ RecognizeSong(i)
        \/ GetAlbumCover(i)
        \/ GetColor(i)
        \/ Assemble(i)
        \/ ProcessExcept(i)

Spec == Init /\ [][Next]_vars

InitConc ==
    /\ igCookies \in BOOLEAN
    /\ sumOrder = "left"
    /\ wav = NoWav
    /\ cookiesFile = FALSE
    /\ coverFile = NoCover
    /\ inv = [i \in Procs |-> InitInv]
    /\ calls = 0
    /\ fnIn = <<>>
    /\ fnOut = <<>>
    /\ fnPc = "off"

\* two requests served at once by the threaded server
NextConc ==
    \E i \in Procs :
        \/ \E u \in ConcUrls : Request(i, u)
        \/ DownloadVideo(i)
        \/ RecognizeSong(i)
        \/ GetAlbumCover(i)
        \/ GetColor(i)
        \/ Assemble(i)
        \/ ProcessExcept(i)

SpecConc == InitConc /\ [][NextConc]_vars


(***************************************************************************)
(* The pure functions on their own: the argument is drawn in the initial   *)
(* state and one step applies the function.                                *)
(***************************************************************************)
Luma1000(p) == 299 * p[1] + 587 * p[2] + 114 * p[3]

\* every color whose luminance is 0.5 in real arithmetic
HalfColors ==
    { <<x[1], x[2], (127500 - 299 * x[1] - 587 * x[2]) \div 114>> :
        x \in { y \in (0..255) \X (0..255) :
                  LET n == 127500 - 299 * y[1] - 587 * y[2]
                  IN  n >= 0 /\ n % 114 = 0 /\ n \div 114 <= 255 } }

TextChannels == {0, 17, 34, 51, 128, 255}
TextPixels == (TextChannels \X TextChannels \X TextChannels) \cup HalfColors

TextInputs ==
    {[rgb |-> <<>>, hex |-> NO_COLOR]}
        \cup {[rgb |-> p, hex |-> FormatHex(p)] : p \in TextPixels}

InitText ==
    /\ igCookies = FALSE
    /\ sumOrder = "left"
    /\ wav = NoWav
    /\ cookiesFile = FALSE
    /\ coverFile = NoCover
    /\ inv = [i \in Procs |-> InitInv]
    /\ calls = 0
    /\ fnIn \in TextInputs
    /\ fnOut = <<>>
    /\ fnPc = "ready"

CallGetTextColor ==
    /\ fnPc = "ready"
    /\ fnOut' = get_text_color(fnIn.hex)
    /\ fnPc' = "done"
    /\ UNCHANGED <<igCookies, sumOrder, wav, cookiesFile, coverFile, inv, calls, fnIn>>

NextText == CallGetTextColor

SpecText == InitText /\ [][NextText]_vars

MaxPixels == 2

Images == UNION {[1..n -> PixelSamples] : n \in 1..MaxPixels}

ColorInputs == {NoCover} \cup {[exists |-> TRUE, pixels |-> img, by |-> 0] : img \in Images}

InitColor ==
    /\ igCookies = FALSE
    /\ sumOrder \in SumOrders
    /\ wav = NoWav
    /\ cookiesFile = FALSE
    /\ coverFile = NoCover
    /\ inv = [i \in Procs |-> InitInv]
    /\ calls = 0
    /\ fnIn \in ColorInputs
    /\ fnOut = <<>>
    /\ fnPc = "ready"

CallGetColor ==
    /\ fnPc = "ready"
    /\ fnOut' = get_color(fnIn, sumOrder)
    /\ fnPc' = "done"
    /\ UNCHANGED <<igCookies, sumOrder, wav, cookiesFile, coverFile, inv, calls, fnIn>>

NextColor == CallGetColor

SpecColor == InitColor /\ [][NextColor]_vars


(***************************************************************************)
(* The claims.                                                             *)
(***************************************************************************)
Responded(i) == inv[i].pc = "responded"
MainReturned(i) == inv[i].out # NoRecord

\* C1: for a YouTube URL that is not a Shorts URL, main returns a record with
\* success = false, and nothing of the pipeline runs in that invocation: the
\* downloader is not called, no cookie file is written, and the recognizer,
\* the artwork fetcher and the color analyzer are not run.
C1_NonShortsRejected ==
    \A i \in Procs :
        inv[i].url \in {U_YT_WATCH, U_YT_BE} =>
            /\ inv[i].log = {}
            /\ inv[i].pc \in {"download", "assemble", "responded"}
            /\ Responded(i) => MainReturned(i) /\ inv[i].out.success = FALSE

C1_Witness ==
    \E i \in Procs :
        /\ Responded(i)
        /\ inv[i].url = U_YT_BE
        /\ igCookies
        /\ inv[i].out = [success |-> FALSE, error |-> ONLY_SHORTS_MSG]

C3_ArtworkOnlyWithSong ==
    \A i \in Procs :
        /\ "artwork" \in inv[i].log => Truthy(inv[i].t) /\ Truthy(inv[i].a)
        /\ "no_match" \in inv[i].log =>
               "artwork" \notin inv[i].log /\ "color" \notin inv[i].log

\* C4: once the recognizer has been called, output/temp.wav no longer exists,
\* whatever the outcome of the call (match, no match, network error on the
\* POST, a response that is not JSON).
C4_WavDeletedAfterRecognizer ==
    \A i \in SeqProcs : "recognizer" \in inv[i].log => ~wav.exists

\* C5: when download_video has written cookies.txt, the file no longer exists
\* once download_video has returned, on success and on a downloader failure.
C5_CookiesRemoved ==
    \A i \in SeqProcs : "cookie" \in inv[i].log => ~cookiesFile

\* C6: every failed response, the one for a network error while contacting
\* the recognition service included, is a record with success = false and a
\* field named error.
C6_FailureHasErrorField ==
    \A i \in Procs :
        Responded(i) /\ inv[i].resp.success = FALSE => "error" \in DOMAIN inv[i].resp

\* C7: in a success record whose cover flag is false, the color is the
\* sentinel NO_COLOR and the text color is #000000: the color never comes
\* from a cover.jpg that an earlier invocation left.
C7_ColorFromOwnArtwork ==
    \A i \in Procs :
        MainReturned(i) /\ inv[i].out.success /\ ~inv[i].out.cover =>
            inv[i].out.color = NO_COLOR /\ inv[i].out.text_color = BLACK

\* C8: two invocations running at once can corrupt each other's state: a
\* record that does not belong to its invocation's own URL (another video's
\* song, or a failure because the WAV file is gone) is returned, and this
\* happens only to an invocation whose recognizer met a WAV file that it had
\* not written itself.
ForeignResult(i) ==
    /\ Responded(i)
    /\ \/ inv[i].exc = "FileNotFoundError"
       \/ /\ MainReturned(i)
          /\ inv[i].out.success
          /\ inv[i].out.title # SongOf(inv[i].url).title

C8_CorruptionByForeignWav ==
    \A i \in Procs : ForeignResult(i) => inv[i].wavBy # inv[i].id

C8_Witness ==
    \E i, j \in Procs :
        /\ i # j
        /\ Responded(i)
        /\ MainReturned(i)
        /\ inv[i].url = U_YT_SHORTS
        /\ inv[j].url = U_REEL
        /\ inv[i].out.success
        /\ inv[i].out.title = SongOf(U_REEL).title
        /\ inv[i].wavBy = inv[j].id

\* the colors of luminance 0.5 for which the float64 value of
\* (0.299*r + 0.587*g + 0.114*b)/255 is 0.49999999999999994
HalfRoundsBelow ==
    { <<0, 204, 68>>, <<12, 174, 191>>, <<15, 195, 75>>, <<23, 175, 157>>,
      <<30, 186, 82>>, <<38, 166, 164>>, <<41, 187, 48>>, <<53, 157, 171>>,
      <<56, 178, 55>>, <<64, 158, 137>>, <<71, 169, 62>>, <<79, 149, 144>>,
      <<86, 160, 69>>, <<87, 129, 226>>, <<94, 140, 151>>, <<97, 161, 35>>,
      <<102, 120, 233>>, <<112, 152, 42>>, <<117, 111, 240>>,
      <<120, 132, 124>>, <<127, 143, 49>>, <<132, 102, 247>>,
      <<135, 123, 131>>, <<138, 144, 15>>, <<143, 103, 213>>,
      <<147, 93, 254>>, <<153, 135, 22>>, <<158, 94, 220>>,
      <<161, 115, 104>>, <<168, 126, 29>>, <<173, 85, 227>>,
      <<176, 106, 111>>, <<188, 76, 234>>, <<194, 118, 2>>, <<198, 108, 43>>,
      <<199, 77, 200>>, <<209, 109, 9>>, <<214, 68, 207>>, <<217, 89, 91>>,
      <<224, 100, 16>>, <<232, 80, 98>>, <<239, 91, 23>>, <<240, 60, 180>>,
      <<255, 51, 187>> }
\* C9 as stated: get_text_color returns #FFFFFF exactly when
\* 299r + 587g + 114b < 127500 and #000000 otherwise.
C9_IntegerThreshold ==
    fnPc = "done" /\ fnIn.hex # NO_COLOR =>
        fnOut = IF Luma1000(fnIn.rgb) < 127500 THEN WHITE ELSE BLACK

\* C9, amended: get_text_color returns #FFFFFF when 299r + 587g + 114b is
\* below 127500 and #000000 when it is above; of the 114 colors where it is
\* 127500, the 44 whose float64 luminance rounds below 0.5 get #FFFFFF and
\* the other 70 get #000000.  NO_COLOR gets #000000 and #112233 gets #FFFFFF.
C9_FloatThreshold ==
    fnPc = "done" =>
        /\ fnIn.hex = NO_COLOR => fnOut = BLACK
        /\ fnIn.hex # NO_COLOR =>
              fnOut = IF Luma1000(fnIn.rgb) < 127500 \/ fnIn.rgb \in HalfRoundsBelow
                      THEN WHITE ELSE BLACK
        /\ fnIn.hex = <<"#", "1", "1", "2", "2", "3", "3">> => fnOut = WHITE

C9_Witness ==
    /\ fnPc = "done"
    /\ fnIn.hex = <<"#", "0", "0", "C", "C", "4", "4">>
    /\ Luma1000(fnIn.rgb) = 127500
    /\ fnOut = WHITE

\* 3 * (sum over channels of (channel - mean)^2), exactly
\* (the real-number score that the rounded one of Vibrancy stands for)
ExactVibrancy3(p) ==
    3 * (p[1] * p[1] + p[2] * p[2] + p[3] * p[3])
        - (p[1] + p[2] + p[3]) * (p[1] + p[2] + p[3])

IsGray(p) == p[1] = p[2] /\ p[2] = p[3]

MostVibrant(pixels) ==
    { k \in 1..Len(pixels) :
        \A j \in 1..Len(pixels) : ExactVibrancy3(pixels[j]) <= ExactVibrancy3(pixels[k]) }

FirstMostVibrant(pixels) ==
    CHOOSE k \in MostVibrant(pixels) : \A j \in MostVibrant(pixels) : k <= j

\* C10 as stated: get_color returns the hex string of the first pixel, in
\* scan order, whose vibrancy is maximal.
C10_FirstOnTies ==
    fnPc = "done" /\ fnIn.exists =>
        fnOut = FormatHex(fnIn.pixels[FirstMostVibrant(fnIn.pixels)])

\* C10, amended: get_color returns the hex string of a pixel whose vibrancy
\* is maximal; among pixels of equal vibrancy the float64 rounding of the
\* scores decides before scan order does, so the pixel returned need not be
\* the first of them.  For an image of gray pixels only it is the first pixel.
C10_SomeMostVibrant ==
    fnPc = "done" /\ fnIn.exists =>
        /\ \E k \in MostVibrant(fnIn.pixels) : fnOut = FormatHex(fnIn.pixels[k])
        /\ (\A k \in 1..Len(fnIn.pixels) : IsGray(fnIn.pixels[k])) =>
               fnOut = FormatHex(fnIn.pixels[1])

C10_Witness ==
    /\ fnPc = "done"
    /\ fnIn.exists
    /\ fnIn.pixels = << <<1, 1, 2>>, <<0, 0, 1>> >>
    /\ fnOut = <<"#", "0", "0", "0", "0", "0", "1">>

====
